---- MODULE Spec2Model ----
(***************************************************************************)
(* Experiment orchestration of dp_elimination: enumeration of the setup    *)
(* space, command construction, and execution of the external engine       *)
(* serially or on a bounded thread pool.  Four variants of the             *)
(* orchestrator live in the repository:                                    *)
(*   "run"             src/experiments/run.py, which imports               *)
(*                     generate_setups of experiments.py                   *)
(*   "experiments"     src/experiments/experiments.py                      *)
(*   "grid_search"     src/experiments/grid_search.py                      *)
(*   "run_experiments" src/experiments/run_experiments.py                  *)
(* Paths are sequences of components (pathlib), str(path) joins them.      *)
(***************************************************************************)
EXTENDS Integers, Sequences, FiniteSets, TLC

\* ---------------------------------------------------------------- bounds
MaxFormulas == 3
MaxSetups == 2
MaxProcesses == 2
MaxSetupIndex == 1
MaxAxes == 2
MaxAxisLen == 2
\* no batch of the model holds more runs than this
MaxRuns == 4
\* aggregated columns: at most MaxSamples entries in -MaxValue..MaxValue,
\* totals in 0..MaxTotal
MaxSamples == 3
MaxValue == 2
MaxTotal == 2
\* metrics documents: per-step lists of at most MaxSteps entries, steps
\* drawn from the first MaxStepKinds records of StepPool, other durations
\* and counters in 0..MaxDuration
MaxSteps == 2
MaxStepKinds == 3
MaxDuration == 1
\* runs recorded for the comparison are the first MaxRunKinds of RunPool
MaxRunKinds == 2

VARIABLES
    variant,            \* which orchestrator script is run
    subcommand,         \* "run", "count", "summarize", "visualize" or
                        \* "process" (sub-parser)
    dp_exists,          \* dp_path.exists()
    num_processes,      \* --processes
    setup_index,        \* --setup-index
    input_formulas,     \* module-level list of problems
    experiment_setups,  \* module-level list of setups
    grid,               \* module-level grid: sequence of axes
    input_configs,      \* problem-specific .toml files present on disk
    existing_dirs,      \* directories present on disk when the tool starts
    existing_files,     \* regular files present on disk when the tool starts
    metrics,            \* per enumerated run: what its metrics.json is
    pc,                 \* position of the main thread
    commands,           \* list[list[str]]
    working_dirs,       \* list[Path]
    in_parallel,        \* list[bool]
    dirs,               \* directories created by os.makedirs
    files,              \* out.txt files opened for writing
    next_task,          \* next item of the work queue / of the lazy map
    running,            \* external processes alive: {[worker, task]}
    taken,              \* work items a pool thread holds before it starts
                        \* the process: {[worker, task, opened]}
    spawned,            \* subprocess.run calls made, in start order
    finish_order,       \* [task, code] of exited processes, in exit order
    report,             \* "Experiment <dir> exited with code <code>" lines
    exit_status,        \* how the tool ended: "none", "0", "1" or the exception
    count_output,       \* what the count sub-command printed (-1: nothing)
    processed,          \* working directories whose metrics were aggregated
    warnings,           \* "Metrics file <path> doesn't exist" lines
    df_col,             \* the column an aggregation function is applied to
    total_sum,          \* the total passed to get_part_of_total_func
    applied,            \* which aggregation function was applied
    value,              \* what it returned
    module,             \* which file's table functions are called
    document,           \* the metrics document (parsed metrics.json)
    data                \* the map problem -> setup -> tuple of the summary

vars == <<variant, subcommand, dp_exists, num_processes, setup_index,
          input_formulas, experiment_setups, grid, input_configs, pc,
          commands, working_dirs, in_parallel, dirs, files, next_task,
          running, taken, spawned, finish_order, report, exit_status,
          count_output,
          existing_dirs, existing_files, metrics, processed, warnings,
          df_col, total_sum, applied, value, module, document, data>>

inputs == <<variant, subcommand, dp_exists, num_processes, setup_index,
            input_formulas, experiment_setups, grid, input_configs,
            existing_dirs, existing_files, metrics>>

\* state of the post-processing of metrics and of the table aggregation
tabulation == <<module, document, data>>
postprocessing == <<processed, warnings, df_col, total_sum, applied, value,
                    tabulation>>

\* state of the execution of the batch
execution == <<commands, working_dirs, in_parallel, dirs, files, running, taken,
               spawned, finish_order, report, count_output>>

\* ------------------------------------------------------------- utilities
Range(s) == {s[i] : i \in DOMAIN s}

RECURSIVE Flatten(_)
Flatten(ss) == IF ss = <<>> THEN <<>> ELSE Head(ss) \o Flatten(Tail(ss))

RECURSIVE Join(_, _)
\* sep.join(parts)
Join(parts, sep) ==
    IF parts = <<>> THEN ""
    ELSE IF Len(parts) = 1 THEN parts[1]
    ELSE parts[1] \o sep \o Join(Tail(parts), sep)

\* str(path): components joined by "/"; a leading "" component is the root
PathStr(p) == Join(p, "/")

\* path.name: the final component
PathName(p) == p[Len(p)]

\* path / "a/b/c": the right operand contributes one component per part
PathJoin(p, parts) == p \o parts

\* f"{prefix}{formula}{suffix}" as path parts: a formula id contains "/"
Decorate(prefix, formula, suffix) ==
    IF Len(formula) = 1 THEN <<prefix \o formula[1] \o suffix>>
    ELSE <<prefix \o formula[1]>>
         \o SubSeq(formula, 2, Len(formula) - 1)
         \o <<formula[Len(formula)] \o suffix>>

\* ------------------------------------------------------- path constants
cwd == <<"", "home">>
script_root_dir == <<"", "repo", "experiments">>
default_config_path == PathJoin(script_root_dir, <<"default_config.toml">>)
inputs_dir == PathJoin(script_root_dir, <<"inputs">>)
setups_dir == PathJoin(script_root_dir, <<"setups">>)
dp_path == <<"build", "dp">>
results_arg == <<"results">>

\* Path.absolute()
absolute(p) == IF p # <<>> /\ p[1] = "" THEN p ELSE cwd \o p

\* results_dir handed to generate_setups by the run sub-command
results_dir ==
    CASE variant \in {"run", "experiments"} -> absolute(results_arg)
      [] variant = "grid_search" -> results_arg
      [] OTHER -> PathJoin(script_root_dir, <<"results">>)

\* ----------------------------------------------------- module-level lists
FormulaPool ==
    << <<"dpelim_data", "Handmade", "ais", "ais6.dc">>,
       <<"dpelim_data", "Handmade", "ais", "ais8.dc">>,
       <<"dpelim_data", "Planning", "3blocks.dc">>,
       <<"bf0432-007">>,
       <<"dpelim_data", "Planning", "tire-1.dc">> >>

SetupPool == <<"minimal_bloat", "grid_search", "all_minimize", "never_minimize">>

OptionPool ==
    <<"complete-minimization-relative-size",
      "partial-minimization-relative-size",
      "incremental-absorption-removal-relative-size",
      "max-formula-growth">>

\* grid values in hundredths (the grid is rounded to two decimals)
ValuePool == <<100, 132, 0, 173, 33>>

Axis(k, n) == [name |-> OptionPool[k], values |-> SubSeq(ValuePool, 1, n)]

Grids ==
    UNION {[1..na -> 0..MaxAxisLen] : na \in 0..MaxAxes}

MakeGrid(sizes) == [k \in DOMAIN sizes |-> Axis(k, sizes[k])]

\* f"{v:.2f}" for v given in hundredths
Digits == <<"0", "1", "2", "3", "4", "5", "6", "7", "8", "9">>
Fmt2f(v) ==
    ToString(v \div 100) \o "." \o Digits[((v % 100) \div 10) + 1]
                         \o Digits[(v % 10) + 1]

\* ------------------------------------------------------------ enumeration
RECURSIVE product(_)
\* itertools.product(*axes): last axis varies fastest
product(axes) ==
    IF axes = <<>> THEN << <<>> >>
    ELSE LET h == Head(axes)
             rest == product(Tail(axes))
         IN Flatten([i \in 1..Len(h.values) |->
                        [j \in 1..Len(rest) |->
                            << <<h.name, h.values[i]>> >> \o rest[j]]])

\* mutant: the axes are paired element by element instead of crossed
generate_configs_zip(g) ==
    IF g = <<>> THEN << <<>> >>
    ELSE LET n == CHOOSE m \in 0..Len(g[1].values) :
                     /\ \A k \in 1..Len(g) : m <= Len(g[k].values)
                     /\ \E k \in 1..Len(g) : m = Len(g[k].values)
         IN [i \in 1..n |-> [k \in 1..Len(g) |-> <<g[k].name, g[k].values[i]>>]]

generate_configs(g) == product(g)

config_name(config) ==
    Join([k \in 1..Len(config) |->
            SubSeq(config[k][1], 1, 3) \o "=" \o Fmt2f(config[k][2])], "_")

extra_options(config) ==
    Flatten([k \in 1..Len(config) |->
               <<"--" \o config[k][1], Fmt2f(config[k][2])>>])

\* mutant: the directory is named after the problem alone
output_dir_path_per_formula(v, rdir, setup, formula, config) ==
    PathJoin(rdir, formula)

\* results_dir / f"{setup}/{formula}/{config_name}" in grid_search.py (an
\* empty last part adds no component), results_dir / f"{setup}__{formula}"
\* in the other variants
output_dir_path(v, rdir, setup, formula, config) ==
    IF v = "grid_search"
    THEN PathJoin(rdir, <<setup>> \o formula
                        \o (IF config_name(config) = "" THEN <<>>
                            ELSE <<config_name(config)>>))
    ELSE PathJoin(rdir, Decorate(setup \o "__", formula, ""))

Descriptor(v, rdir, formula, setup, config) ==
    [config |-> config,
     formula |-> formula,
     setup_config_path |-> PathJoin(setups_dir, <<setup \o ".toml">>),
     input_config_path |-> PathJoin(inputs_dir, Decorate("", formula, ".toml")),
     input_formula_path |-> PathJoin(inputs_dir, Decorate("", formula, ".cnf")),
     output_dir_path |-> output_dir_path(v, rdir, setup, formula, config),
     extra_options |-> extra_options(config)]

\* mutant: the setup loop is the outer loop, the problem loop the inner one
generate_setups_setup_outer(v, rdir, formulas, setups, g) ==
    LET configs == IF v = "grid_search" THEN generate_configs(g) ELSE << <<>> >>
    IN Flatten([s \in 1..Len(setups) |->
          Flatten([f \in 1..Len(formulas) |->
             [c \in 1..Len(configs) |->
                 Descriptor(v, rdir, formulas[f], setups[s], configs[c])]])])

\* for formula in input_formulas: for setup in experiment_setups:
\*     (grid_search only) for config in generate_configs(): yield ...
generate_setups(v, rdir, formulas, setups, g) ==
    LET configs == IF v = "grid_search" THEN generate_configs(g) ELSE << <<>> >>
    IN Flatten([f \in 1..Len(formulas) |->
          Flatten([s \in 1..Len(setups) |->
             [c \in 1..Len(configs) |->
                 Descriptor(v, rdir, formulas[f], setups[s], configs[c])]])])

\* ---------------------------------------------------- command construction
\* enumerate(generate_setups(...)) filtered by
\* "if setup_index >= 0 and i != setup_index: continue" (i is 0-based)
selected(all, idx) ==
    LET keep == {i \in 1..Len(all) : idx < 0 \/ i - 1 = idx}
        RECURSIVE pick(_)
        pick(i) == IF i > Len(all) THEN <<>>
                   ELSE (IF i \in keep THEN <<all[i]>> ELSE <<>>) \o pick(i + 1)
    IN pick(1)

\* input_config_path.exists()
exists(path) == path \in input_configs

\* mutant: the grid overrides are placed before the --config flags
command_with_args_overrides_first(v, d) ==
    <<PathStr(absolute(dp_path)),
      PathStr(d.input_formula_path)>>
    \o (IF v = "grid_search" THEN d.extra_options ELSE <<>>)
    \o <<"--config", PathStr(default_config_path),
         "--config", PathStr(d.setup_config_path)>>
    \o (IF exists(d.input_config_path)
        THEN <<"--config", PathStr(d.input_config_path)>> ELSE <<>>)

\* mutant: the positional input file is placed after the --config flags
command_with_args_input_last(v, d) ==
    <<PathStr(absolute(dp_path)),
      "--config", PathStr(default_config_path),
      "--config", PathStr(d.setup_config_path)>>
    \o (IF exists(d.input_config_path)
        THEN <<"--config", PathStr(d.input_config_path)>> ELSE <<>>)
    \o <<PathStr(d.input_formula_path)>>
    \o (IF v = "grid_search" THEN d.extra_options ELSE <<>>)

\* command_with_args of run.py, experiments.py and grid_search.py
command_with_args(v, d) ==
    <<PathStr(absolute(dp_path)),
      PathStr(d.input_formula_path),
      "--config", PathStr(default_config_path),
      "--config", PathStr(d.setup_config_path)>>
    \o (IF exists(d.input_config_path)
        THEN <<"--config", PathStr(d.input_config_path)>> ELSE <<>>)
    \o (IF v = "grid_search" THEN d.extra_options ELSE <<>>)

\* command_with_args of run_experiments.py
command_with_args_old(d) ==
    <<PathStr(absolute(dp_path)),
      "--config", PathStr(default_config_path),
      "--config", PathStr(d.setup_config_path),
      "--config", PathStr(d.input_config_path),
      "--input-file", PathStr(d.input_formula_path)>>

all_setups == generate_setups(variant, results_dir, input_formulas,
                              experiment_setups, grid)

\* --------------------------------------------------------------- run_experiment
\* mutant: the log file is opened in serial mode too
out_file_always(dir, parallel) == PathStr(PathJoin(dir, <<"out.txt">>))

\* out_file / err_file chosen by is_run_in_parallel
out_file(dir, parallel) == IF parallel THEN PathStr(PathJoin(dir, <<"out.txt">>))
                           ELSE "sys.stdout"
err_file(dir, parallel) == IF parallel THEN out_file(dir, parallel)
                           ELSE "sys.stderr"

\* print_out(...) and subprocess.run(command, cwd=cwd, stdout=out_file,
\* stderr=err_file) of one call of run_experiment
Popen(i, parallel) ==
    [task |-> i, command |-> commands[i], cwd |-> working_dirs[i],
     print_out |-> out_file(working_dirs[i], parallel),
     stdout |-> out_file(working_dirs[i], parallel),
     stderr |-> err_file(working_dirs[i], parallel)]

\* ------------------------------------------------------------ file system
\* Path.exists() and Path.is_dir()
path_exists(p) == p \in existing_dirs \cup existing_files \cup dirs
is_dir(p) == p \in existing_dirs \cup dirs

\* mutant: os.makedirs(p) without exist_ok fails on an existing directory
makedirs_strict(p) == ~path_exists(p)

\* os.makedirs(p, exist_ok=True) succeeds unless p is a regular file
makedirs(p) == p \notin existing_files

\* nothing was returned
NoValue == [kind |-> "none"]

\* no document was read
NoDocument == [kind |-> "none"]

\* --------------------------------------------------------------------- Init
ExitCodes == {0, 1}
Variants == {"run", "experiments", "grid_search", "run_experiments"}

ConfigPaths(formulas) ==
    {PathJoin(inputs_dir, Decorate("", formulas[i], ".toml")) : i \in DOMAIN formulas}

\* sub-parsers of the variant's command line
Subcommands(v) ==
    CASE v = "experiments" -> {"run", "count", "summarize", "visualize"}
      [] v = "grid_search" -> {"run", "count", "process"}
      [] OTHER -> {"run"}

\* what a metrics.json can be: missing, a directory, a complete document
\* the processing function handles ("ok"), text that is not JSON, a document
\* without a namespace that is read, or a complete document on which the
\* processing function raises ("degenerate": a zero propagation duration,
\* a zero elimination total, an empty series, no initial variable, ...)
MetricsStatus ==
    {"absent", "directory", "ok", "unparsable", "incomplete", "degenerate"}

\* the exceptions the processing function of a sub-command raises on
\* complete documents: create_tables and create_overall_summary_table of
\* experiments.py for summarize, the plot functions for visualize,
\* get_duration and get_remaining_vars_ratio for process
func_raises(sub) ==
    CASE sub = "summarize" ->
            {"AssertionError", "ValueError", "KeyError", "ZeroDivisionError"}
      [] sub = "visualize" -> {"AssertionError", "KeyError"}
      [] OTHER -> {"ZeroDivisionError", "IndexError"}

Init ==
    /\ variant \in Variants
    /\ subcommand \in Subcommands(variant)
    /\ dp_exists \in (IF subcommand = "run" THEN BOOLEAN ELSE {TRUE})
    /\ num_processes \in (IF variant \in {"run", "experiments"} /\ subcommand = "run"
                          THEN 0..MaxProcesses ELSE {1})
    /\ setup_index \in (IF variant # "run_experiments" /\ subcommand = "run"
                        THEN -1..MaxSetupIndex ELSE {-1})
    /\ \E nf \in 0..MaxFormulas : input_formulas = SubSeq(FormulaPool, 1, nf)
    /\ \E ns \in 0..MaxSetups : experiment_setups = SubSeq(SetupPool, 1, ns)
    /\ \E sizes \in (IF variant = "grid_search" THEN Grids ELSE {<<>>}) :
          grid = MakeGrid(sizes)
    /\ Len(generate_setups(variant, <<>>, input_formulas, experiment_setups, grid))
          <= MaxRuns
    /\ input_configs \in (IF subcommand = "run"
                          THEN SUBSET ConfigPaths(input_formulas) ELSE {{}})
    /\ existing_dirs \in
          (CASE subcommand = "run" /\ input_configs = {} /\ dp_exists ->
                  {{}, {all_setups[i].output_dir_path : i \in DOMAIN all_setups}}
             [] subcommand \in {"summarize", "visualize", "process"} -> {{}, {results_dir}}
             [] OTHER -> {{}})
    /\ existing_files \in
          (IF subcommand \in {"summarize", "visualize", "process"} /\ existing_dirs = {}
           THEN {{}, {results_dir}} ELSE {{}})
    /\ metrics \in
          (IF subcommand \in {"summarize", "visualize", "process"}
           THEN [DOMAIN all_setups ->
                    IF results_dir \in existing_dirs THEN MetricsStatus
                    ELSE {"absent"}]
           ELSE {<<>>})
    /\ pc = "start"
    /\ commands = <<>>
    /\ working_dirs = <<>>
    /\ in_parallel = <<>>
    /\ dirs = {}
    /\ files = {}
    /\ next_task = 1
    /\ running = {}
    /\ taken = {}
    /\ spawned = <<>>
    /\ finish_order = <<>>
    /\ report = <<>>
    /\ exit_status = "none"
    /\ count_output = -1
    /\ processed = <<>>
    /\ warnings = <<>>
    /\ df_col = <<>>
    /\ total_sum = 0
    /\ applied = "none"
    /\ value = NoValue
    /\ module = "none"
    /\ document = NoDocument
    /\ data = <<>>

\* ------------------------------------------------------------------ actions
\* count_setups: print(len(list(generate_setups(Path()))))
CountSetups ==
    /\ pc = "start" /\ subcommand = "count"
    /\ count_output' = Len(generate_setups(variant, <<>>, input_formulas,
                                            experiment_setups, grid))
    /\ pc' = "done"
    /\ exit_status' = "0"
    /\ UNCHANGED <<inputs, postprocessing, commands, working_dirs, in_parallel, dirs, files,
                   next_task, running, taken, spawned, finish_order, report>>

\* mutant: the executable path is not validated
CheckExecutable_unchecked ==
    /\ pc = "start" /\ subcommand = "run"
    /\ pc' = IF variant = "run_experiments" THEN "loop" ELSE "prepare"
    /\ UNCHANGED <<inputs, postprocessing, commands, working_dirs, in_parallel, dirs, files,
                   next_task, running, taken, spawned, finish_order, report,
                   exit_status, count_output>>

\* "if not dp_path.exists(): ... sys.exit(1)"
CheckExecutable ==
    /\ pc = "start" /\ subcommand = "run"
    /\ IF dp_exists
       THEN /\ pc' = IF variant = "run_experiments" THEN "loop" ELSE "prepare"
            /\ UNCHANGED exit_status
       ELSE /\ pc' = "done"
            /\ exit_status' = "1"
    /\ UNCHANGED <<inputs, postprocessing, commands, working_dirs, in_parallel, dirs, files,
                   next_task, running, taken, spawned, finish_order, report, count_output>>

\* number of fields of the tuples the variant's generate_setups yields:
\* run.py imports generate_setups of experiments.py
yielded_fields(v) == IF v = "grid_search" THEN 7 ELSE 4

\* number of names the for statement of the variant unpacks each tuple into
unpacked_fields(v) ==
    CASE v = "run" -> 6
      [] v = "grid_search" -> 7
      [] OTHER -> 4

\* "prepare execution setups": the whole for loop.  Unpacking the first
\* yielded tuple into a different number of names raises ValueError before
\* the loop body runs.
PrepareSetups ==
    /\ pc = "prepare"
    /\ IF all_setups # <<>> /\ yielded_fields(variant) # unpacked_fields(variant)
       THEN /\ pc' = "done"
            /\ exit_status' = "ValueError"
            /\ UNCHANGED <<commands, working_dirs, dirs>>
       ELSE LET sel == selected(all_setups, setup_index)
                failed == {i \in 1..Len(sel) : ~makedirs(sel[i].output_dir_path)}
            IN IF failed # {}
               THEN /\ dirs' = dirs \cup {sel[i].output_dir_path :
                                            i \in {k \in 1..Len(sel) :
                                                     \A b \in failed : k < b}}
                    /\ pc' = "done"
                    /\ exit_status' = "FileExistsError"
                    /\ UNCHANGED <<commands, working_dirs>>
               ELSE /\ commands' = [i \in 1..Len(sel) |->
                                       command_with_args(variant, sel[i])]
                    /\ working_dirs' = [i \in 1..Len(sel) |->
                                           sel[i].output_dir_path]
                    /\ dirs' = dirs \cup {sel[i].output_dir_path : i \in 1..Len(sel)}
                    /\ pc' = "mode"
                    /\ UNCHANGED exit_status
    /\ UNCHANGED <<inputs, postprocessing, in_parallel, files, next_task, running, taken, spawned,
                   finish_order, report, count_output>>

\* mutant: a batch of as many runs as workers is accepted
parallel_allowed_ge == num_processes > 1 /\ Len(commands) >= num_processes

\* the two asserts of the parallel branch
parallel_allowed == num_processes > 1 /\ Len(commands) > num_processes

\* "execute in parallel": serial, parallel or AssertionError
SelectMode ==
    /\ pc = "mode" /\ variant \in {"run", "experiments"}
    /\ IF num_processes = 1
       THEN /\ in_parallel' = [i \in 1..Len(commands) |-> FALSE]
            /\ pc' = "pool"
            /\ UNCHANGED exit_status
       ELSE IF parallel_allowed
       THEN /\ in_parallel' = [i \in 1..Len(commands) |-> TRUE]
            /\ pc' = "pool"
            /\ UNCHANGED exit_status
       ELSE /\ pc' = "done"
            /\ exit_status' = "AssertionError"
            /\ UNCHANGED in_parallel
    /\ UNCHANGED <<inputs, postprocessing, commands, working_dirs, dirs, files, next_task,
                   running, taken, spawned, finish_order, report, count_output>>

\* ThreadPoolExecutor(max_workers=num_processes)
Workers == 1..num_processes

\* mutant: a worker takes the next command while its process still runs
idle_nonblocking(w) == TRUE

idle(w) == \A r \in running \cup taken : r.worker # w

\* a pool thread takes the next work item from the executor's queue
WorkerTake(w) ==
    /\ pc = "pool" /\ next_task <= Len(commands)
    /\ idle(w)
    /\ taken' = taken \cup {[worker |-> w, task |-> next_task, opened |-> FALSE]}
    /\ next_task' = next_task + 1
    /\ UNCHANGED <<inputs, postprocessing, pc, commands, working_dirs,
                   in_parallel, dirs, files, running, spawned, finish_order,
                   report, exit_status, count_output>>

\* run_experiment up to the call of subprocess.run: out.txt is opened in
\* parallel mode and the header is printed
WorkerOpen(w) ==
    /\ pc = "pool"
    /\ \E t \in taken :
          /\ t.worker = w /\ ~t.opened
          /\ files' = IF in_parallel[t.task]
                      THEN files \cup {out_file(working_dirs[t.task], TRUE)}
                      ELSE files
          /\ taken' = (taken \ {t}) \cup {[t EXCEPT !.opened = TRUE]}
    /\ UNCHANGED <<inputs, postprocessing, pc, commands, working_dirs,
                   in_parallel, dirs, next_task, running, spawned,
                   finish_order, report, exit_status, count_output>>

\* subprocess.run starts the external process of the work item
WorkerStart(w) ==
    /\ pc = "pool"
    /\ \E t \in taken :
          /\ t.worker = w /\ t.opened
          /\ spawned' = Append(spawned, Popen(t.task, in_parallel[t.task]))
          /\ running' = running \cup {[worker |-> w, task |-> t.task]}
          /\ taken' = taken \ {t}
    /\ UNCHANGED <<inputs, postprocessing, pc, commands, working_dirs,
                   in_parallel, dirs, files, next_task, finish_order, report,
                   exit_status, count_output>>

\* mutant: a nonzero exit code raises (subprocess.run(..., check=True))
WorkerExit_check(w, code) ==
    /\ pc = "pool"
    /\ \E r \in running :
          /\ r.worker = w
          /\ running' = running \ {r}
          /\ finish_order' = Append(finish_order, [task |-> r.task, code |-> code])
    /\ pc' = IF code = 0 THEN pc ELSE "done"
    /\ exit_status' = IF code = 0 THEN exit_status ELSE "CalledProcessError"
    /\ UNCHANGED <<inputs, postprocessing, commands, working_dirs, in_parallel, dirs, files,
                   next_task, taken, spawned, report, count_output>>

\* the external process of worker w exits; run_experiment returns its code
WorkerExit(w, code) ==
    /\ pc = "pool"
    /\ \E r \in running :
          /\ r.worker = w
          /\ running' = running \ {r}
          /\ finish_order' = Append(finish_order, [task |-> r.task, code |-> code])
    /\ UNCHANGED <<inputs, postprocessing, pc, commands, working_dirs,
                   in_parallel, dirs, files,
                   next_task, taken, spawned, report, exit_status, count_output>>

\* result of task i
returncode(i) == (CHOOSE r \in Range(finish_order) : r.task = i).code

\* mutant: results are yielded as they complete
exit_codes_as_completed ==
    [i \in 1..Len(finish_order) |-> finish_order[i].code]

\* the iterator returned by exec.map: results in submission order
exit_codes == [i \in 1..Len(commands) |-> returncode(i)]

\* zip(working_dirs, exit_codes) printed as "Experiment {dir.name} exited ..."
zip_report(ds, codes) ==
    [i \in 1..(IF Len(ds) < Len(codes) THEN Len(ds) ELSE Len(codes)) |->
        [dir |-> PathName(ds[i]), code |-> codes[i]]]

prints_summary == variant = "experiments" \/ num_processes > 1

\* mutant: the pool is left without waiting (shutdown(wait=False)), the
\* summary is not printed
PoolShutdown_nowait ==
    /\ pc = "pool" /\ next_task > Len(commands)
    /\ pc' = "done"
    /\ exit_status' = "0"
    /\ UNCHANGED <<inputs, postprocessing, commands, working_dirs, in_parallel,
                   dirs, files, next_task, running, taken, spawned, finish_order,
                   report, count_output>>

\* leaving the with block (shutdown(wait=True)) and printing the summary
PoolShutdown ==
    /\ pc = "pool" /\ next_task > Len(commands)
    /\ running = {} /\ taken = {}
    /\ report' = IF prints_summary THEN zip_report(working_dirs, exit_codes)
                 ELSE report
    /\ pc' = "done"
    /\ exit_status' = "0"
    /\ UNCHANGED <<inputs, postprocessing, commands, working_dirs, in_parallel, dirs, files,
                   next_task, running, taken, spawned, finish_order, count_output>>

\* grid_search.py 84-85: in_parallel all False, lazy map
MapSetup ==
    /\ pc = "mode" /\ variant = "grid_search"
    /\ in_parallel' = [i \in 1..Len(commands) |-> FALSE]
    /\ pc' = "map"
    /\ UNCHANGED <<inputs, postprocessing, commands, working_dirs, dirs, files, next_task,
                   running, taken, spawned, finish_order, report, exit_status, count_output>>

\* "for _ in iter": the main thread (worker 0) runs the next experiment
MapStart ==
    /\ pc = "map" /\ next_task <= Len(commands) /\ idle(0)
    /\ LET i == next_task IN
          /\ files' = IF in_parallel[i]
                      THEN files \cup {out_file(working_dirs[i], TRUE)} ELSE files
          /\ spawned' = Append(spawned, Popen(i, in_parallel[i]))
          /\ running' = running \cup {[worker |-> 0, task |-> i]}
          /\ next_task' = i + 1
    /\ UNCHANGED <<inputs, postprocessing, pc, commands, working_dirs, in_parallel, dirs,
                   finish_order, report, exit_status, count_output,
                   taken>>

MapExit(code) ==
    /\ pc = "map"
    /\ \E r \in running :
          /\ r.worker = 0
          /\ running' = running \ {r}
          /\ finish_order' = Append(finish_order, [task |-> r.task, code |-> code])
    /\ UNCHANGED <<inputs, postprocessing, pc, commands, working_dirs,
                   in_parallel, dirs, files,
                   next_task, taken, spawned, report, exit_status, count_output>>

MapDone ==
    /\ pc = "map" /\ next_task > Len(commands) /\ running = {}
    /\ pc' = "done"
    /\ exit_status' = "0"
    /\ UNCHANGED <<inputs, postprocessing, commands, working_dirs, in_parallel, dirs, files,
                   next_task, running, taken, spawned, finish_order, report, count_output>>

\* run_experiments.py 33-43: one iteration up to the start of the process
LoopStart ==
    /\ pc = "loop" /\ next_task <= Len(all_setups) /\ idle(0)
    /\ LET i == next_task
           d == all_setups[i]
           c == command_with_args_old(d)
       IN IF makedirs(d.output_dir_path)
          THEN /\ commands' = Append(commands, c)
               /\ working_dirs' = Append(working_dirs, d.output_dir_path)
               /\ dirs' = dirs \cup {d.output_dir_path}
               /\ spawned' = Append(spawned,
                                    [task |-> i, command |-> c,
                                     cwd |-> d.output_dir_path,
                                     print_out |-> "sys.stdout",
                                     stdout |-> "sys.stdout",
                                     stderr |-> "sys.stderr"])
               /\ running' = running \cup {[worker |-> 0, task |-> i]}
               /\ next_task' = i + 1
               /\ UNCHANGED <<pc, exit_status, taken>>
          ELSE /\ pc' = "done"
               /\ exit_status' = "FileExistsError"
               /\ UNCHANGED <<commands, working_dirs, dirs, spawned, running, taken,
                              next_task>>
    /\ UNCHANGED <<inputs, postprocessing, in_parallel, files, finish_order,
                   report, count_output>>

\* run_experiments.py 43-45: the process exits, its code is not looked at
LoopExit(code) ==
    /\ pc = "loop"
    /\ \E r \in running :
          /\ r.worker = 0
          /\ running' = running \ {r}
          /\ finish_order' = Append(finish_order, [task |-> r.task, code |-> code])
    /\ UNCHANGED <<inputs, postprocessing, pc, commands, working_dirs,
                   in_parallel, dirs, files,
                   next_task, taken, spawned, report, exit_status, count_output>>

LoopDone ==
    /\ pc = "loop" /\ next_task > Len(all_setups) /\ running = {}
    /\ pc' = "done"
    /\ exit_status' = "0"
    /\ UNCHANGED <<inputs, postprocessing, commands, working_dirs, in_parallel, dirs, files,
                   next_task, running, taken, spawned, finish_order, report, count_output>>

\* --------------------------------------------------- metrics post-processing
\* output_dir_path / "metrics.json"
metrics_path(i) == PathJoin(all_setups[i].output_dir_path, <<"metrics.json">>)

\* process exit code of the interpreter: 0 on a normal return, the argument
\* of sys.exit, 1 when an exception is not caught
exit_code ==
    CASE exit_status = "none" -> -1
      [] exit_status = "0" -> 0
      [] OTHER -> 1

\* mutant: the results directory is not validated
CheckResultsDir_unchecked ==
    /\ pc = "start" /\ subcommand \in {"summarize", "visualize"}
    /\ pc' = "metrics"
    /\ UNCHANGED <<inputs, execution, next_task, exit_status, postprocessing>>

\* process_metrics: "if not results_dir.exists() or not results_dir.is_dir():
\* ... sys.exit(1)"
CheckResultsDir ==
    /\ pc = "start" /\ subcommand \in {"summarize", "visualize"}
    /\ IF ~path_exists(results_dir) \/ ~is_dir(results_dir)
       THEN /\ pc' = "done"
            /\ exit_status' = "1"
       ELSE /\ pc' = "metrics"
            /\ UNCHANGED exit_status
    /\ UNCHANGED <<inputs, execution, next_task, postprocessing>>

\* extract_results: the empty data frame is built, nothing is validated
BuildIndex ==
    /\ pc = "start" /\ subcommand = "process"
    /\ pc' = "metrics"
    /\ UNCHANGED <<inputs, execution, next_task, exit_status, postprocessing>>

\* mutant: a missing metrics file ends the pass
ReadMetrics_stop_on_absent ==
    /\ pc = "metrics" /\ next_task <= Len(all_setups)
    /\ LET i == next_task IN
          CASE metrics[i] = "ok" ->
                  /\ processed' = Append(processed, all_setups[i].output_dir_path)
                  /\ next_task' = i + 1
                  /\ UNCHANGED <<warnings, pc, exit_status>>
            [] OTHER ->
                  /\ warnings' = Append(warnings, PathStr(metrics_path(i)))
                  /\ pc' = "done"
                  /\ exit_status' = "1"
                  /\ UNCHANGED <<processed, next_task>>
    /\ UNCHANGED <<inputs, execution, df_col, total_sum, applied, value,
                   tabulation>>

\* one iteration of the loop of process_metrics / extract_results:
\* "if metrics_path.exists() and metrics_path.is_file()" then json.load and
\* the aggregation of the document, else the warning.  Nothing catches
\* json.JSONDecodeError, the KeyError of a missing namespace or an
\* exception the processing function raises: each ends the pass.
ReadMetrics ==
    /\ pc = "metrics" /\ next_task <= Len(all_setups)
    /\ LET i == next_task IN
          CASE metrics[i] = "ok" ->
                  /\ processed' = Append(processed, all_setups[i].output_dir_path)
                  /\ next_task' = i + 1
                  /\ UNCHANGED <<warnings, pc, exit_status>>
            [] metrics[i] = "unparsable" ->
                  /\ pc' = "done"
                  /\ exit_status' = "JSONDecodeError"
                  /\ UNCHANGED <<processed, warnings, next_task>>
            [] metrics[i] = "incomplete" ->
                  /\ pc' = "done"
                  /\ exit_status' = "KeyError"
                  /\ UNCHANGED <<processed, warnings, next_task>>
            [] metrics[i] = "degenerate" ->
                  /\ pc' = "done"
                  /\ exit_status' \in func_raises(subcommand)
                  /\ UNCHANGED <<processed, warnings, next_task>>
            [] OTHER ->
                  /\ warnings' = Append(warnings, PathStr(metrics_path(i)))
                  /\ next_task' = i + 1
                  /\ UNCHANGED <<processed, pc, exit_status>>
    /\ UNCHANGED <<inputs, execution, df_col, total_sum, applied, value,
                   tabulation>>

\* the loop is exhausted; extract_results then writes results_dir /
\* "results.csv", which raises OSError when results_dir is not a directory
\* (exit_status "0" of the process sub-command means the table was written)
MetricsDone ==
    /\ pc = "metrics" /\ next_task > Len(all_setups)
    /\ pc' = "done"
    /\ exit_status' = IF subcommand = "process" /\ ~is_dir(results_dir)
                      THEN "OSError" ELSE "0"
    /\ UNCHANGED <<inputs, execution, next_task, postprocessing>>

Next ==
    \/ CountSetups
    \/ CheckExecutable
    \/ PrepareSetups
    \/ SelectMode
    \/ \E w \in Workers : WorkerTake(w)
    \/ \E w \in Workers : WorkerOpen(w)
    \/ \E w \in Workers : WorkerStart(w)
    \/ \E w \in Workers, code \in ExitCodes : WorkerExit(w, code)
    \/ PoolShutdown
    \/ MapSetup
    \/ MapStart
    \/ \E code \in ExitCodes : MapExit(code)
    \/ MapDone
    \/ LoopStart
    \/ \E code \in ExitCodes : LoopExit(code)
    \/ LoopDone
    \/ CheckResultsDir
    \/ BuildIndex
    \/ ReadMetrics
    \/ MetricsDone

Spec == Init /\ [][Next]_vars

\* ------------------------------------------------- aggregation functions
\* Numbers are kept exactly as (num / den) * sqrt(rad_num / rad_den) with
\* den > 0 and rad_den > 0.
Number(n, d) ==
    [kind |-> "number", num |-> IF d < 0 THEN -n ELSE n,
     den |-> IF d < 0 THEN -d ELSE d, rad_num |-> 1, rad_den |-> 1]

\* v * a / b for a number v and integers a, b with b # 0
Scale(v, a, b) ==
    [v EXCEPT !.num = IF b < 0 THEN -(v.num * a) ELSE v.num * a,
              !.den = IF b < 0 THEN -(v.den * b) ELSE v.den * b]

RECURSIVE sum(_)
\* df_col.sum()
sum(col) == IF col = <<>> THEN 0 ELSE Head(col) + sum(Tail(col))

\* the multiplier get_aggregation_functions passes
multiplier == 100000

\* ret_0: "assert df_col.sum() == 0; return 0"
ret_0(col) ==
    IF sum(col) = 0 THEN Number(0, 1) ELSE [kind |-> "AssertionError"]

\* part_of_total: (df_col.sum() / total_sum) * multiplier; dividing a numpy
\* integer by zero gives nan or inf
part_of_total(col, total, mult) ==
    IF total = 0 THEN [kind |-> "nan_or_inf"]
    ELSE Number(sum(col) * mult, total)

\* mutant: the zero total is not told apart
get_part_of_total_func_unguarded(col, total, mult) ==
    part_of_total(col, total, mult)

\* get_part_of_total_func(total_sum, multiplier) applied to a column
get_part_of_total_func(col, total, mult) ==
    IF total = 0 THEN ret_0(col) ELSE part_of_total(col, total, mult)

RECURSIVE squared_deviations(_, _, _)
\* sum over the column of (n * x - s) ^ 2, i.e. n ^ 2 times the sum of the
\* squared deviations from the mean s / n
squared_deviations(col, n, s) ==
    IF col = <<>> THEN 0
    ELSE (n * Head(col) - s) * (n * Head(col) - s)
         + squared_deviations(Tail(col), n, s)

\* pandas Series.std(ddof): sqrt(sum of squared deviations / (n - ddof))
Series_std(col, ddof) ==
    LET n == Len(col) IN
       IF n - ddof <= 0 THEN [kind |-> "nan"]
       ELSE [kind |-> "number", num |-> 1, den |-> 1,
             rad_num |-> squared_deviations(col, n, sum(col)),
             rad_den |-> n * n * (n - ddof)]

\* mutant: the deviations are averaged over n (ddof = 0)
std_population(col) ==
    IF Len(col) < 2 THEN Number(0, 1) ELSE Series_std(col, 0)

\* std: 0 below two samples, else df_col.std(), whose default is ddof = 1
std(col) ==
    IF Len(col) < 2 THEN Number(0, 1) ELSE Series_std(col, 1)

\* mutant: a zero mean yields 0
rel_std_zero(col) ==
    IF col = <<>> THEN [kind |-> "nan"]
    ELSE IF sum(col) = 0 THEN Number(0, 1)
    ELSE Scale(std(col), 100 * Len(col), sum(col))

\* rel_std: std when the mean is 0, else (std / mean) * 100 with
\* mean = sum / n; the mean of an empty column is nan, and so is the result
rel_std(col) ==
    IF col = <<>> THEN [kind |-> "nan"]
    ELSE IF sum(col) = 0 THEN std(col)
    ELSE Scale(std(col), 100 * Len(col), sum(col))

\* columns and totals the functions are applied to
Columns == UNION {[1..n -> -MaxValue..MaxValue] : n \in 0..MaxSamples}

InitAggregate ==
    /\ variant = "experiments"
    /\ subcommand = "summarize"
    /\ dp_exists = TRUE
    /\ num_processes = 1
    /\ setup_index = -1
    /\ input_formulas = <<>>
    /\ experiment_setups = <<>>
    /\ grid = <<>>
    /\ input_configs = {}
    /\ existing_dirs = {}
    /\ existing_files = {}
    /\ metrics = <<>>
    /\ pc = "aggregate"
    /\ commands = <<>>
    /\ working_dirs = <<>>
    /\ in_parallel = <<>>
    /\ dirs = {}
    /\ files = {}
    /\ next_task = 1
    /\ running = {}
    /\ taken = {}
    /\ spawned = <<>>
    /\ finish_order = <<>>
    /\ report = <<>>
    /\ exit_status = "none"
    /\ count_output = -1
    /\ processed = <<>>
    /\ warnings = <<>>
    /\ df_col \in Columns
    /\ total_sum \in 0..MaxTotal
    /\ applied = "none"
    /\ value = NoValue
    /\ module = "none"
    /\ document = NoDocument
    /\ data = <<>>

\* DataFrame.aggregate calls one function of get_aggregation_functions on
\* the column
AggregatePartOfTotal ==
    /\ pc = "aggregate" /\ applied = "none"
    /\ applied' = "part_of_total"
    /\ value' = get_part_of_total_func(df_col, total_sum, multiplier)
    /\ UNCHANGED <<inputs, execution, pc, next_task, exit_status, processed,
                   warnings, df_col, total_sum, tabulation>>

AggregateStd ==
    /\ pc = "aggregate" /\ applied = "none"
    /\ applied' = "std"
    /\ value' = std(df_col)
    /\ UNCHANGED <<inputs, execution, pc, next_task, exit_status, processed,
                   warnings, df_col, total_sum, tabulation>>

AggregateRelStd ==
    /\ pc = "aggregate" /\ applied = "none"
    /\ applied' = "rel_std"
    /\ value' = rel_std(df_col)
    /\ UNCHANGED <<inputs, execution, pc, next_task, exit_status, processed,
                   warnings, df_col, total_sum, tabulation>>

NextAggregate ==
    \/ AggregatePartOfTotal
    \/ AggregateStd
    \/ AggregateRelStd

SpecAggregate == InitAggregate /\ [][NextAggregate]_vars

\* ------------------------------------------------------ per-run tables
elimination_table_keys ==
    <<"Total", "SubsetDecomposition", "Resolution", "Unification",
      "TautologiesRemoval">>

\* a table: column names and rows (functions from column name to cell)
Table(columns, rows) == [kind |-> "table", columns |-> columns, rows |-> rows]

\* table[c]
Column(table, c) == [i \in 1..Len(table.rows) |-> table.rows[i][c]]

\* "if table.empty: table.loc[0] = -1"
placeholder_if_empty(table) ==
    IF table.rows = <<>>
    THEN [table EXCEPT !.rows = << [c \in Range(table.columns) |-> -1] >>]
    ELSE table

\* metrics["durations"]["EliminateVar_" + key]
durations_EliminateVar(doc, key) ==
    [i \in 1..Len(doc.EliminateVar) |-> doc.EliminateVar[i][key]]

\* mutant: the overhead subtracts every column, Total included
create_elimination_table_all_keys(doc) ==
    LET n == Len(doc.EliminateVar)
        cols == elimination_table_keys \o <<"MeasurementOverhead">>
        row(i) == [c \in Range(cols) |->
                     IF c = "MeasurementOverhead"
                     THEN durations_EliminateVar(doc, "Total")[i]
                          - sum([k \in 1..Len(elimination_table_keys) |->
                                   durations_EliminateVar(
                                       doc, elimination_table_keys[k])[i]])
                     ELSE durations_EliminateVar(doc, c)[i]]
    IN placeholder_if_empty(Table(cols, [i \in 1..n |-> row(i)]))

\* create_elimination_table: one row per step, MeasurementOverhead =
\* Total - sum of the columns elimination_table_keys[1:]
create_elimination_table(doc) ==
    LET n == Len(doc.EliminateVar)
        cols == elimination_table_keys \o <<"MeasurementOverhead">>
        stages == Tail(elimination_table_keys)
        row(i) == [c \in Range(cols) |->
                     IF c = "MeasurementOverhead"
                     THEN durations_EliminateVar(doc, "Total")[i]
                          - sum([k \in 1..Len(stages) |->
                                   durations_EliminateVar(doc, stages[k])[i]])
                     ELSE durations_EliminateVar(doc, c)[i]]
    IN placeholder_if_empty(Table(cols, [i \in 1..n |-> row(i)]))

\* create_variables_table: pd.DataFrame([]) has no column, so naming its
\* columns ["VarSelection"] raises ValueError (length mismatch)
create_variables_table(doc) ==
    IF doc.VarSelection = <<>> THEN [kind |-> "ValueError"]
    ELSE Table(<<"VarSelection">>,
               [i \in 1..Len(doc.VarSelection) |->
                   [c \in {"VarSelection"} |-> doc.VarSelection[i]]])

\* create_absorbed_table / create_incremental_absorbed_table for documents
\* without Serialize and Build durations and with one value of the series
\* per search: columns TotalDuration (the sum of the duration columns),
\* Search and the series
search_table(search, series, name) ==
    LET n == Len(search)
    IN placeholder_if_empty(
          Table(<<"TotalDuration", "Search", name>>,
                [i \in 1..n |->
                    [c \in {"TotalDuration", "Search", name} |->
                        CASE c = name -> series[i]
                          [] OTHER -> search[i]]]))

create_absorbed_table(doc) ==
    search_table(doc.RemoveAbsorbedClauses_Search, doc.AbsorbedClausesRemoved,
                 "AbsorbedClausesRemoved")

create_incremental_absorbed_table(doc) ==
    search_table(doc.IncrementalAbsorbedRemoval_Search,
                 doc.AbsorbedClausesNotAdded, "AbsorbedClausesNotAdded")

\* table[0].corr(table[1]) over the k rows in which both cells are present:
\* nan without such a row or when one of the two has no variance, else
\* cov / sqrt(var_x * var_y)
corr(xs, ys) ==
    LET k == IF Len(xs) < Len(ys) THEN Len(xs) ELSE Len(ys)
        x == SubSeq(xs, 1, k)
        y == SubSeq(ys, 1, k)
        sx == sum(x)
        sy == sum(y)
        vx == k * sum([i \in 1..k |-> x[i] * x[i]]) - sx * sx
        vy == k * sum([i \in 1..k |-> y[i] * y[i]]) - sy * sy
    IN IF k = 0 \/ vx * vy = 0 THEN [kind |-> "nan"]
       ELSE [kind |-> "number",
             num |-> k * sum([i \in 1..k |-> x[i] * y[i]]) - sx * sy,
             den |-> 1, rad_num |-> 1, rad_den |-> vx * vy]

\* get_heuristic_correlation: the transposed frame of the two lists is
\* empty only when both lists are; a shorter list is padded with nan
get_heuristic_correlation(doc) ==
    IF doc.HeuristicScores = <<>> /\ doc.ClauseCountDifference = <<>>
    THEN Number(0, 1)
    ELSE corr(doc.HeuristicScores, doc.ClauseCountDifference)

\* tables.py, get_unit_propagations_per_second: -1 for a zero duration,
\* else assignments / (duration / 1_000_000)
get_unit_propagations_per_second(doc) ==
    IF doc.WatchedLiterals_Propagation = 0 THEN Number(-1, 1)
    ELSE Number(doc.WatchedLiterals_Assignments * 1000000,
                doc.WatchedLiterals_Propagation)

\* tables.py, get_backtrack_to_propagation_ratio
get_backtrack_to_propagation_ratio(doc) ==
    IF doc.WatchedLiterals_Propagation = 0 THEN Number(-1, 1)
    ELSE Number(doc.WatchedLiterals_Backtrack, doc.WatchedLiterals_Propagation)

\* experiments.py, get_unit_propagations_per_second: no test of the
\* duration, the division by 0.0 seconds raises
experiments_get_unit_propagations_per_second(doc) ==
    IF doc.WatchedLiterals_Propagation = 0 THEN [kind |-> "ZeroDivisionError"]
    ELSE Number(doc.WatchedLiterals_Assignments * 1000000,
                doc.WatchedLiterals_Propagation)

\* experiments.py, get_backtrack_to_propagation_ratio
experiments_get_backtrack_to_propagation_ratio(doc) ==
    IF doc.WatchedLiterals_Propagation = 0 THEN [kind |-> "ZeroDivisionError"]
    ELSE Number(doc.WatchedLiterals_Backtrack, doc.WatchedLiterals_Propagation)

\* the module's own copy of the two functions
unit_propagations_per_second_of(mod, doc) ==
    IF mod = "tables" THEN get_unit_propagations_per_second(doc)
    ELSE experiments_get_unit_propagations_per_second(doc)

backtrack_to_propagation_ratio_of(mod, doc) ==
    IF mod = "tables" THEN get_backtrack_to_propagation_ratio(doc)
    ELSE experiments_get_backtrack_to_propagation_ratio(doc)

\* table.aggregate(get_aggregation_functions(total)) raises when the
\* part-of-total function does for one of the columns
aggregate_raises(table, total) ==
    \E k \in 1..Len(table.columns) :
        get_part_of_total_func(Column(table, table.columns[k]), total,
                               multiplier).kind = "AssertionError"

\* create_tables: the tables, or the first exception on the way. The rows
\* of a summary are labelled by the aggregation functions' names: with
\* total = 0 the function is ret_0, no row is renamed to "ratio", and
\* stages_summary.loc["ratio"] //= 100 raises KeyError
create_tables(mod, doc) ==
    LET elimination == create_elimination_table(doc)
        total == sum(Column(elimination, "Total"))
        variables == create_variables_table(doc)
        absorbed == create_absorbed_table(doc)
        incremental == create_incremental_absorbed_table(doc)
    IN CASE aggregate_raises(elimination, total) -> [kind |-> "AssertionError"]
         [] variables.kind # "table" -> variables
         [] aggregate_raises(variables, total) -> [kind |-> "AssertionError"]
         [] aggregate_raises(absorbed, total) -> [kind |-> "AssertionError"]
         [] aggregate_raises(incremental, total) -> [kind |-> "AssertionError"]
         [] total = 0 -> [kind |-> "KeyError"]
         [] doc.ClauseCounts = <<>> -> [kind |-> "ValueError"]
         [] unit_propagations_per_second_of(mod, doc).kind # "number" ->
               unit_propagations_per_second_of(mod, doc)
         [] OTHER ->
               [kind |-> "tables",
                names |-> <<"elimination_stages", "absorbed_clauses",
                            "algorithm_stages", "zbdd_sizes", "summary">>]

\* steps of the elimination: durations of Total and of its four stages
StepPool ==
    << [Total |-> 7, SubsetDecomposition |-> 1, Resolution |-> 2,
        Unification |-> 1, TautologiesRemoval |-> 1],
       [Total |-> 0, SubsetDecomposition |-> 0, Resolution |-> 0,
        Unification |-> 0, TautologiesRemoval |-> 0],
       [Total |-> 0, SubsetDecomposition |-> 1, Resolution |-> 0,
        Unification |-> 0, TautologiesRemoval |-> 0],
       [Total |-> 5, SubsetDecomposition |-> 1, Resolution |-> 1,
        Unification |-> 2, TautologiesRemoval |-> 1],
       [Total |-> 3, SubsetDecomposition |-> 0, Resolution |-> 4,
        Unification |-> 0, TautologiesRemoval |-> 0] >>

Lists == UNION {[1..n -> 0..MaxDuration] : n \in 0..MaxSteps}
StepLists == UNION {[1..n -> Range(SubSeq(StepPool, 1, MaxStepKinds))] :
                       n \in 0..MaxSteps}

\* a complete document of one uneventful run
BaseDocument ==
    [kind |-> "metrics",
     EliminateVar |-> <<StepPool[1]>>,
     VarSelection |-> <<1>>,
     RemoveAbsorbedClauses_Search |-> <<0>>,
     AbsorbedClausesRemoved |-> <<0>>,
     IncrementalAbsorbedRemoval_Search |-> <<0>>,
     AbsorbedClausesNotAdded |-> <<0>>,
     ClauseCounts |-> <<1, 1>>,
     NodeCounts |-> <<1, 1>>,
     HeuristicScores |-> <<0, 1>>,
     ClauseCountDifference |-> <<1, 0>>,
     WatchedLiterals_Assignments |-> 1,
     WatchedLiterals_Propagation |-> 1,
     WatchedLiterals_Backtrack |-> 1]

\* documents that differ from the base document in one group of entries
Documents ==
    {[BaseDocument EXCEPT !.EliminateVar = e, !.VarSelection = v] :
        e \in StepLists, v \in Lists}
    \cup {[BaseDocument EXCEPT !.HeuristicScores = h,
                               !.ClauseCountDifference = c] :
             h \in Lists, c \in Lists}
    \cup {[BaseDocument EXCEPT !.WatchedLiterals_Assignments = a,
                               !.WatchedLiterals_Propagation = q,
                               !.WatchedLiterals_Backtrack = b] :
             a \in 0..MaxDuration, q \in 0..MaxDuration, b \in 0..MaxDuration}
    \cup {[BaseDocument EXCEPT !.ClauseCounts = c, !.NodeCounts = c,
                               !.RemoveAbsorbedClauses_Search = r,
                               !.AbsorbedClausesRemoved = r] :
             c \in Lists, r \in Lists}

InitTables ==
    /\ variant = "experiments"
    /\ subcommand = "summarize"
    /\ dp_exists = TRUE
    /\ num_processes = 1
    /\ setup_index = -1
    /\ input_formulas = <<>>
    /\ experiment_setups = <<>>
    /\ grid = <<>>
    /\ input_configs = {}
    /\ existing_dirs = {}
    /\ existing_files = {}
    /\ metrics = <<>>
    /\ pc = "tables"
    /\ commands = <<>>
    /\ working_dirs = <<>>
    /\ in_parallel = <<>>
    /\ dirs = {}
    /\ files = {}
    /\ next_task = 1
    /\ running = {}
    /\ taken = {}
    /\ spawned = <<>>
    /\ finish_order = <<>>
    /\ report = <<>>
    /\ exit_status = "none"
    /\ count_output = -1
    /\ processed = <<>>
    /\ warnings = <<>>
    /\ df_col = <<>>
    /\ total_sum = 0
    /\ applied = "none"
    /\ value = NoValue
    /\ module \in {"tables", "experiments"}
    /\ document \in Documents
    /\ data = <<>>

\* one of the table functions is called on the document
Call(name, result) ==
    /\ pc = "tables" /\ applied = "none"
    /\ applied' = name
    /\ value' = result
    /\ UNCHANGED <<inputs, execution, pc, next_task, exit_status, processed,
                   warnings, df_col, total_sum, tabulation>>

CreateEliminationTable ==
    Call("create_elimination_table", create_elimination_table(document))

GetHeuristicCorrelation ==
    Call("get_heuristic_correlation", get_heuristic_correlation(document))

GetUnitPropagationsPerSecond ==
    Call("get_unit_propagations_per_second",
         unit_propagations_per_second_of(module, document))

GetBacktrackToPropagationRatio ==
    Call("get_backtrack_to_propagation_ratio",
         backtrack_to_propagation_ratio_of(module, document))

CreateTables == Call("create_tables", create_tables(module, document))

NextTables ==
    \/ CreateEliminationTable
    \/ GetHeuristicCorrelation
    \/ GetUnitPropagationsPerSecond
    \/ GetBacktrackToPropagationRatio
    \/ CreateTables

SpecTables == InitTables /\ [][NextTables]_vars

\* --------------------------------------------- comparison across setups
global_col == "global"

NaN == [kind |-> "nan"]

\* max(values) of a non-empty list
max(values) ==
    CHOOSE m \in Range(values) : \A v \in Range(values) : v <= m

\* d[k] = v on a dict
Put(d, k, v) == [x \in DOMAIN d \cup {k} |-> IF x = k THEN v ELSE d[x]]

\* mutant: an absent entry reads as zeros
get_zero(d, k, default) ==
    IF k \in DOMAIN d THEN d[k] ELSE [j \in DOMAIN default |-> Number(0, 1)]

\* d.get(k, default)
get(d, k, default) == IF k \in DOMAIN d THEN d[k] ELSE default

\* problem identities in sorted order, and sorted(keys)
InputKeys == <<"Handmade/ais6.dc", "Planning/3blocks.dc">>
SetupKeys == <<"all_minimize", "minimal_bloat">>
sorted(keys) == SelectSeq(InputKeys, LAMBDA k : k \in keys)

get_duration(m) == Number(m.AlgorithmTotal[1], 1)

get_remaining_vars_ratio(m) ==
    Number(m.FinalVars - m.MinVar + 1, m.InitVars - m.MinVar + 1)

get_relative_growth(m) ==
    Number(m.ClauseCounts[Len(m.ClauseCounts)], m.ClauseCounts[1])

\* summary.py and summary_plots.py, extract_setup_summary_data
extract_setup_summary_data(m, d, setup_key, input_key) ==
    LET i_data == IF input_key \in DOMAIN d THEN d[input_key] ELSE <<>>
    IN [data |-> Put(d, input_key,
                     Put(i_data, setup_key,
                         <<get_duration(m), get_remaining_vars_ratio(m),
                           get_relative_growth(m)>>)),
        raised |-> "none"]

\* (ClauseCounts[0], InitVars, InitVars - MinVar + 1)
general(m) ==
    <<Number(m.ClauseCounts[1], 1), Number(m.InitVars, 1),
      Number(m.InitVars - m.MinVar + 1, 1)>>

\* mutant: every run overwrites the global entry
table_extract_setup_summary_data_overwrite(m, d, setup_key, input_key) ==
    LET i_data == IF input_key \in DOMAIN d THEN d[input_key] ELSE <<>>
        recorded == Put(i_data, setup_key,
                        <<Number(m.AlgorithmTotal[1], 1),
                          Number(m.ClauseCounts[Len(m.ClauseCounts)], 1),
                          Number(max(m.ClauseCounts), 1),
                          Number(m.FinalVars, 1)>>)
    IN [data |-> Put(d, input_key, Put(recorded, global_col, general(m))),
        raised |-> "none"]

\* summary_table.py, extract_setup_summary_data: the run's tuple is stored
\* first, then the global entry is set or compared
table_extract_setup_summary_data(m, d, setup_key, input_key) ==
    LET i_data == IF input_key \in DOMAIN d THEN d[input_key] ELSE <<>>
        recorded == Put(i_data, setup_key,
                        <<Number(m.AlgorithmTotal[1], 1),
                          Number(m.ClauseCounts[Len(m.ClauseCounts)], 1),
                          Number(max(m.ClauseCounts), 1),
                          Number(m.FinalVars, 1)>>)
    IN IF global_col \notin DOMAIN recorded
       THEN [data |-> Put(d, input_key, Put(recorded, global_col, general(m))),
             raised |-> "none"]
       ELSE [data |-> Put(d, input_key, recorded),
             raised |-> IF recorded[global_col] = general(m) THEN "none"
                        ELSE "AssertionError"]

\* the frame of a dict of columns: index, column keys in insertion order and
\* one list of cells per column
Frame(index, columns, cells) ==
    [kind |-> "table", index |-> index, columns |-> columns, cells |-> cells]

\* the list of the j-th components of the group's tuples, one per problem
\* in sorted order, nan for a problem without the group
column_cells(d, group, j, width) ==
    LET index == sorted(DOMAIN d)
    IN [r \in 1..Len(index) |->
          get(d[index[r]], group, [x \in 1..width |-> NaN])[j]]

summary_metrics == <<"duration", "vars", "growth">>

\* summary.py, prepare_setup_summary_data: complete_data[metric][setup]
prepare_setup_summary_data(d, setups) ==
    LET nm == Len(summary_metrics)
        ns == Len(setups)
    IN Frame(sorted(DOMAIN d),
             [k \in 1..(nm * ns) |->
                 <<summary_metrics[((k - 1) \div ns) + 1],
                   setups[((k - 1) % ns) + 1]>>],
             [k \in 1..(nm * ns) |->
                 column_cells(d, setups[((k - 1) % ns) + 1],
                              ((k - 1) \div ns) + 1, nm)])

\* {s_key for i_data in data.values() for s_key in i_data.keys()}
setups_of(d) == {s \in Range(SetupKeys) : \E i \in DOMAIN d : s \in DOMAIN d[i]}

\* the orders in which a set of strings can be iterated (the order depends
\* on the hash seed of the process)
iteration_orders(S) ==
    {o \in [1..Cardinality(S) -> S] : Range(o) = S}

\* summary_plots.py, prepare_setup_summary_data: the setups are those of
\* the data, in the order `order` in which the set of them is iterated
plots_prepare_setup_summary_data(d, order) ==
    prepare_setup_summary_data(d, order)

\* summary.py, create_setup_summary_table: the keys (s, v) of df_data run
\* over complete_data.items() and then over its inner dict
create_setup_summary_table(d, setups) == prepare_setup_summary_data(d, setups)

global_metrics == <<"size", "vars", "aux_vars">>
table_metrics == <<"duration", "end_size", "max_size", "end_vars">>

\* summary_table.py, create_setup_summary_table: the three columns of the
\* global group, then four columns per setup
table_create_setup_summary_table(d, setups) ==
    LET ng == Len(global_metrics)
        nm == Len(table_metrics)
        ns == Len(setups)
    IN Frame(sorted(DOMAIN d),
             [k \in 1..(ng + ns * nm) |->
                 IF k <= ng THEN <<global_col, global_metrics[k]>>
                 ELSE <<setups[((k - ng - 1) \div nm) + 1],
                        table_metrics[((k - ng - 1) % nm) + 1]>>],
             [k \in 1..(ng + ns * nm) |->
                 IF k <= ng THEN column_cells(d, global_col, k, ng)
                 ELSE column_cells(d, setups[((k - ng - 1) \div nm) + 1],
                                   ((k - ng - 1) % nm) + 1, nm)])

\* metrics of finished runs, as far as the comparison reads them
RunPool ==
    << [AlgorithmTotal |-> <<5>>, ClauseCounts |-> <<4, 6, 2>>,
        InitVars |-> 3, MinVar |-> 1, FinalVars |-> 1],
       [AlgorithmTotal |-> <<2>>, ClauseCounts |-> <<5, 1>>,
        InitVars |-> 3, MinVar |-> 1, FinalVars |-> 3],
       [AlgorithmTotal |-> <<7>>, ClauseCounts |-> <<4, 4>>,
        InitVars |-> 3, MinVar |-> 1, FinalVars |-> 2],
       [AlgorithmTotal |-> <<1>>, ClauseCounts |-> <<4, 8>>,
        InitVars |-> 4, MinVar |-> 2, FinalVars |-> 2] >>

SummaryModules == {"summary", "summary_table", "summary_plots"}

\* the setups the caller asks for; summary_plots.py takes none
RequestedSetups(mod) ==
    IF mod = "summary_plots" THEN {<<>>}
    ELSE {<<SetupKeys[1]>>, <<SetupKeys[1], SetupKeys[2]>>,
          <<SetupKeys[2], SetupKeys[1]>>}

InitSummary ==
    /\ variant = "experiments"
    /\ subcommand = "summarize"
    /\ dp_exists = TRUE
    /\ num_processes = 1
    /\ setup_index = -1
    /\ input_formulas = <<>>
    /\ module \in SummaryModules
    /\ experiment_setups \in RequestedSetups(module)
    /\ grid = <<>>
    /\ input_configs = {}
    /\ existing_dirs = {}
    /\ existing_files = {}
    /\ metrics = <<>>
    /\ pc = "summary"
    /\ commands = <<>>
    /\ working_dirs = <<>>
    /\ in_parallel = <<>>
    /\ dirs = {}
    /\ files = {}
    /\ next_task = 1
    /\ running = {}
    /\ taken = {}
    /\ spawned = <<>>
    /\ finish_order = <<>>
    /\ report = <<>>
    /\ exit_status = "none"
    /\ count_output = -1
    /\ processed = <<>>
    /\ warnings = <<>>
    /\ df_col = <<>>
    /\ total_sum = 0
    /\ applied = "none"
    /\ value = NoValue
    /\ document = NoDocument
    /\ data = <<>>

\* one run is recorded; `document` is the run's metrics and `processed`
\* keeps the first run recorded for each problem
ExtractSetupSummaryData ==
    /\ pc = "summary"
    /\ \E i \in 1..Len(InputKeys), s \in 1..Len(SetupKeys),
          k \in 1..MaxRunKinds :
          LET m == RunPool[k]
              result ==
                  IF module = "summary_table"
                  THEN table_extract_setup_summary_data(
                          m, data, SetupKeys[s], InputKeys[i])
                  ELSE extract_setup_summary_data(
                          m, data, SetupKeys[s], InputKeys[i])
          IN /\ data' = result.data
             /\ document' = m
             /\ applied' = "extract_setup_summary_data"
             /\ value' = [kind |-> "call", input_key |-> InputKeys[i],
                          setup_key |-> SetupKeys[s]]
             /\ processed' =
                   IF InputKeys[i] \in DOMAIN data THEN processed
                   ELSE Append(processed,
                               [input_key |-> InputKeys[i], metrics |-> m])
             /\ exit_status' = result.raised
             /\ pc' = IF result.raised = "none" THEN "summary" ELSE "done"
    /\ UNCHANGED <<inputs, execution, next_task, warnings, df_col, total_sum,
                   module>>

\* summary.py and summary_plots.py: the lists behind the plots
PrepareSetupSummaryData ==
    /\ pc = "summary"
    /\ module \in {"summary", "summary_plots"}
    /\ applied' = "prepare_setup_summary_data"
    /\ \E order \in iteration_orders(setups_of(data)) :
          value' = IF module = "summary"
                   THEN prepare_setup_summary_data(data, experiment_setups)
                   ELSE plots_prepare_setup_summary_data(data, order)
    /\ pc' = "done"
    /\ UNCHANGED <<inputs, execution, next_task, exit_status, processed,
                   warnings, df_col, total_sum, tabulation>>

\* summary.py and summary_table.py: the comparison table
CreateSetupSummaryTable ==
    /\ pc = "summary"
    /\ module \in {"summary", "summary_table"}
    /\ applied' = "create_setup_summary_table"
    /\ value' = IF module = "summary"
                THEN create_setup_summary_table(data, experiment_setups)
                ELSE table_create_setup_summary_table(data, experiment_setups)
    /\ pc' = "done"
    /\ UNCHANGED <<inputs, execution, next_task, exit_status, processed,
                   warnings, df_col, total_sum, tabulation>>

NextSummary ==
    \/ ExtractSetupSummaryData
    \/ PrepareSetupSummaryData
    \/ CreateSetupSummaryTable

SpecSummary == InitSummary /\ [][NextSummary]_vars

\* ------------------------------------------------------------------ claims
has_exited(i) == \E k \in 1..Len(finish_order) : finish_order[k].task = i

\* C1: with a nonexistent executable path the run sub-command ends with exit
\* code 1 and has spawned no process and created no working directory.
C1_MissingExecutableAborts ==
    (subcommand = "run" /\ ~dp_exists) =>
        /\ spawned = <<>> /\ running = {} /\ finish_order = <<>>
        /\ dirs = {} /\ files = {} /\ commands = <<>>
        /\ pc \in {"start", "done"}
        /\ pc = "done" => exit_status = "1"

C1_Witness ==
    subcommand = "run" /\ ~dp_exists /\ pc = "done" /\ exit_status = "1"
    /\ Len(all_setups) > 1

\* C2: in run_dp_experiments with num_processes # 1 the batch runs only if
\* num_processes > 1 and len(commands) > num_processes; otherwise (also for
\* num_processes < 1 and for any selection by setup index) it is rejected
\* and no process is ever started.
C2_Eligible == num_processes > 1 /\ Len(commands) > num_processes

C2_DegenerateParallelismRejected ==
    (variant \in {"run", "experiments"} /\ subcommand = "run" /\ dp_exists
     /\ num_processes # 1) =>
        /\ spawned # <<>> => C2_Eligible
        /\ (pc = "done" /\ ~C2_Eligible) =>
              /\ exit_status \in {"AssertionError", "ValueError"}
              /\ spawned = <<>> /\ report = <<>>
        /\ pc = "pool" => C2_Eligible
        /\ (pc = "done" /\ C2_Eligible) =>
              exit_status = "0" /\ \A i \in 1..Len(commands) : has_exited(i)
        /\ (num_processes < 1 \/ setup_index >= 0) => ~C2_Eligible

C2_Witness ==
    /\ variant \in {"run", "experiments"} /\ pc = "done"
    /\ num_processes > 1 /\ Len(commands) = num_processes
    /\ exit_status = "AssertionError" /\ spawned = <<>>

\* C3: at most num_processes external processes run at any moment, and no
\* worker runs two at once.
C3_BoundedParallelism ==
    /\ Cardinality(running) <= (IF num_processes > 0 THEN num_processes ELSE 0)
    /\ \A r1, r2 \in running : r1.worker = r2.worker => r1 = r2
    /\ \A r1, r2 \in running : r1.task = r2.task => r1 = r2

C3_Witness ==
    /\ pc = "pool" /\ num_processes > 1
    /\ Cardinality(running) = num_processes
    /\ next_task <= Len(commands)

\* C4: the i-th line of the outcome report carries the exit code of the
\* process that ran the i-th command in the i-th working directory, whatever
\* the order in which the processes started and exited.
C4_ReportInSubmissionOrder ==
    (pc = "done" /\ exit_status = "0" /\ variant \in {"run", "experiments"}
     /\ prints_summary) =>
        /\ Len(report) = Len(commands)
        /\ \A i \in 1..Len(report) :
              /\ report[i].dir = PathName(working_dirs[i])
              /\ \E k \in 1..Len(spawned), m \in 1..Len(finish_order) :
                    /\ spawned[k].task = i
                    /\ spawned[k].command = commands[i]
                    /\ spawned[k].cwd = working_dirs[i]
                    /\ finish_order[m].task = i
                    /\ finish_order[m].code = report[i].code

C4_Witness ==
    /\ pc = "done" /\ exit_status = "0" /\ num_processes > 1
    /\ Len(report) > 2
    /\ \E a, b \in 1..Len(finish_order) :
          /\ a < b
          /\ finish_order[a].task > finish_order[b].task
          /\ finish_order[a].code # finish_order[b].code

\* C5: a nonzero exit code is an ordinary result: whatever codes the
\* processes return, a batch that started a process ends normally with every
\* command started once and exited.
C5_NonzeroExitIsOrdinary ==
    /\ (\E k \in 1..Len(finish_order) : finish_order[k].code # 0) =>
          exit_status \in {"none", "0"}
    /\ (pc = "done" /\ spawned # <<>>) =>
          /\ exit_status = "0"
          /\ \A i \in 1..Len(commands) :
                /\ Cardinality({k \in 1..Len(spawned) : spawned[k].task = i}) = 1
                /\ Cardinality({k \in 1..Len(finish_order) :
                                   finish_order[k].task = i}) = 1

C5_Witness ==
    /\ pc = "done" /\ exit_status = "0" /\ Len(commands) > 2
    /\ finish_order[1].code # 0
    /\ \A i \in 1..Len(commands) : has_exited(i)

\* C6: with concurrency 1 every run prints to the console and no log file
\* exists; with concurrency > 1 the banner, stdout and stderr of every run
\* all go to out.txt in that run's own working directory.
C6_LogOf(s) == PathStr(s.cwd \o <<"out.txt">>)

C6_OutputFollowsMode ==
    /\ num_processes = 1 => files = {}
    /\ files = {C6_LogOf(spawned[k]) : k \in {j \in 1..Len(spawned) :
                                                num_processes > 1}}
               \cup {C6_LogOf([cwd |-> working_dirs[t.task]]) :
                        t \in {u \in taken : u.opened /\ num_processes > 1}}
    /\ \A k \in 1..Len(spawned) :
          LET s == spawned[k] IN
          /\ s.cwd = working_dirs[s.task]
          /\ num_processes = 1 =>
                /\ s.print_out = "sys.stdout"
                /\ s.stdout = "sys.stdout"
                /\ s.stderr = "sys.stderr"
          /\ num_processes > 1 =>
                /\ s.print_out = C6_LogOf(s)
                /\ s.stdout = C6_LogOf(s)
                /\ s.stderr = C6_LogOf(s)

C6_Witness ==
    /\ num_processes > 1 /\ Len(spawned) > 1
    /\ Cardinality(files) > 1
    /\ spawned[2].stdout = PathStr(working_dirs[2] \o <<"out.txt">>)

\* the descriptor the i-th built command was built from
built ==
    IF variant = "run_experiments" THEN all_setups
    ELSE selected(all_setups, setup_index)

config_flags(c) == {k \in 1..Len(c) : c[k] = "--config"}
override_flags(c) ==
    {k \in 1..Len(c) : \E a \in 1..Len(OptionPool) : c[k] = "--" \o OptionPool[a]}

\* the --config flags of every command come in the order base, setup,
\* problem-specific, and every grid override comes after them
C7_Ordered(cmds) ==
    LET descriptors == built
        base == PathStr(default_config_path)
    IN \A i \in 1..Len(cmds) :
        LET c == cmds[i]
            d == descriptors[i]
            flags == config_flags(c)
            overrides == override_flags(c)
            of_setup == PathStr(d.setup_config_path)
            of_problem == PathStr(d.input_config_path)
        IN /\ \E kb, ks \in flags :
                 /\ kb < ks
                 /\ c[kb + 1] = base
                 /\ c[ks + 1] = of_setup
                 /\ \A k \in flags \ {kb, ks} :
                       k > ks /\ c[k + 1] = of_problem
           /\ \A k \in overrides : \A f \in flags : k > f + 1
           /\ \A a \in 1..Len(d.config) :
                 \E k \in overrides :
                    /\ c[k] = "--" \o d.config[a][1]
                    /\ c[k + 1] = Fmt2f(d.config[a][2])

\* C7: in every built command the --config flags come in the order base,
\* setup, problem-specific, and every grid override comes after the value
\* of the last --config flag: every step that builds commands leaves them
\* so.
C7_ConfigPrecedenceOrder ==
    [][commands' # commands => C7_Ordered(commands')]_vars

C7_Witness ==
    \E i \in 1..Len(commands) :
        /\ Cardinality(config_flags(commands[i])) = 3
        /\ Cardinality(override_flags(commands[i])) = 2

\* C8: the problem-specific --config flag is in a built command exactly when
\* the problem-specific configuration file exists on disk; the base and
\* setup --config flags are always there.
C8_ProblemConfigIffExists ==
    LET descriptors == built
    IN \A i \in 1..Len(commands) :
        LET c == commands[i]
            d == descriptors[i]
            flags == config_flags(c)
        IN /\ \E k \in flags : c[k + 1] = PathStr(default_config_path)
           /\ \E k \in flags : c[k + 1] = PathStr(d.setup_config_path)
           /\ (\E k \in flags : c[k + 1] = PathStr(d.input_config_path))
                 <=> d.input_config_path \in input_configs

\* C9 as claimed: the executable is the first argument and the input file
\* (bare, or as the value of --input-file) comes right after it, before
\* every --config flag.
C9_InputFileSecond ==
    LET descriptors == built
        executable == PathStr(absolute(dp_path))
    IN \A i \in 1..Len(commands) :
        LET c == commands[i]
            d == descriptors[i]
            input == PathStr(d.input_formula_path)
        IN /\ c[1] = executable
           /\ \/ c[2] = input
              \/ c[2] = "--input-file" /\ c[3] = input
           /\ \A k \in config_flags(c) : k > 2

\* the executable is the first argument; a bare input file is the second,
\* one given with --input-file makes the last two arguments
C9_Placed(cmds) ==
    LET descriptors == built
        executable == PathStr(absolute(dp_path))
    IN \A i \in 1..Len(cmds) :
        LET c == cmds[i]
            d == descriptors[i]
            input == PathStr(d.input_formula_path)
            n == Len(c)
        IN /\ c[1] = executable
           /\ IF \E k \in 1..n : c[k] = "--input-file"
              THEN /\ c[n - 1] = "--input-file" /\ c[n] = input
                   /\ \A k \in config_flags(c) : k + 1 < n - 1
              ELSE /\ c[2] = input
                   /\ \A k \in config_flags(c) : k > 2

\* C9 as amended: the executable is the first argument; a bare input file is
\* the second argument, before every --config flag; an input file given
\* with --input-file makes the last two arguments, after every --config
\* flag: every step that builds commands leaves them so.
C9_InputFilePlacement ==
    [][commands' # commands => C9_Placed(commands')]_vars

C9_Witness ==
    /\ variant = "run_experiments" /\ Len(commands) > 1
    /\ commands[2][Len(commands[2]) - 1] = "--input-file"
    /\ commands[2][2] = "--config"

\* C10: enumeration yields |problems| x |setups| x (product of the axis
\* sizes) descriptors, and the count sub-command prints that number.
RECURSIVE C10_AxisProduct(_)
C10_AxisProduct(g) ==
    IF g = <<>> THEN 1 ELSE Len(Head(g).values) * C10_AxisProduct(Tail(g))

C10_Expected ==
    Len(input_formulas) * Len(experiment_setups) * C10_AxisProduct(grid)

C10_EnumerationCount ==
    /\ (subcommand = "count" /\ pc = "done") => count_output = C10_Expected
    /\ (subcommand = "run" /\ setup_index < 0 /\ variant # "run_experiments"
        /\ pc \in {"mode", "pool", "map"}) =>
          Len(commands) = C10_Expected /\ Len(working_dirs) = C10_Expected
    /\ (variant = "run_experiments" /\ pc = "done" /\ dp_exists) =>
          Len(commands) = C10_Expected

C10_Witness ==
    /\ subcommand = "count" /\ pc = "done" /\ variant = "grid_search"
    /\ Len(grid) = 2 /\ Len(grid[1].values) = 2 /\ Len(grid[2].values) = 2
    /\ Len(input_formulas) = 1
    /\ count_output = 4

\* C11: the enumeration is lexicographic: the problem varies slowest, the
\* setup next, the grid assignment fastest (axes in declared order, the
\* last axis fastest).  The descriptor at position k is a closed-form
\* function of the inputs and of k, so two enumerations of the same inputs
\* yield the same sequence.
C11_ConfigAt(c) ==
    [a \in 1..Len(grid) |->
        <<grid[a].name,
          grid[a].values[((c \div C10_AxisProduct(SubSeq(grid, a + 1, Len(grid))))
                            % Len(grid[a].values)) + 1]>>]

C11_DescriptorAt(k) ==
    LET nc == IF variant = "grid_search" THEN C10_AxisProduct(grid) ELSE 1
        ns == Len(experiment_setups)
        f == ((k - 1) \div (ns * nc)) + 1
        s == (((k - 1) \div nc) % ns) + 1
        c == (k - 1) % nc
    IN Descriptor(variant, results_dir, input_formulas[f], experiment_setups[s],
                  IF variant = "grid_search" THEN C11_ConfigAt(c) ELSE <<>>)

C11_CommandOf(d) ==
    IF variant = "run_experiments" THEN command_with_args_old(d)
    ELSE command_with_args(variant, d)

C11_Enumerated(cmds, wds) ==
    (subcommand = "run" /\ setup_index < 0) =>
        /\ Len(cmds) = Len(wds)
        /\ \A k \in 1..Len(wds) :
              LET d == C11_DescriptorAt(k) IN
                 /\ wds[k] = d.output_dir_path
                 /\ cmds[k] = C11_CommandOf(d)

\* C11: the prepared runs follow the lexicographic enumeration (problem
\* slowest, setup next, grid assignment fastest): every step that prepares
\* runs leaves the k-th working directory and command those of the
\* closed-form descriptor at position k.
C11_LexicographicOrder ==
    [][(commands' # commands \/ working_dirs' # working_dirs)
          => C11_Enumerated(commands', working_dirs')]_vars

C11_Witness ==
    /\ variant = "grid_search" /\ pc = "done" /\ exit_status = "0"
    /\ setup_index < 0
    /\ Len(input_formulas) = 1 /\ Len(experiment_setups) = 1
    /\ Len(grid) = 2 /\ Len(grid[1].values) = 2 /\ Len(grid[2].values) = 2
    /\ Len(working_dirs) = 4
    /\ PathName(working_dirs[2]) = "com=1.00_par=1.32"
    /\ PathName(working_dirs[3]) = "com=1.32_par=1.00"

\* C12: with a setup index i >= 0 exactly the descriptor at position i is
\* prepared and executed (nothing when i is not a position of the
\* enumeration) and only its working directory is created; with a negative
\* index every enumerated descriptor is executed.  Stated for the serial
\* runs of the variants that take --setup-index.
C12_Positions ==
    IF setup_index < 0 THEN 1..C10_Expected
    ELSE {k \in 1..C10_Expected : k - 1 = setup_index}

C12_Selects(vs) ==
    (variant \in vs /\ subcommand = "run" /\ dp_exists /\ num_processes = 1
     /\ pc = "done") =>
        /\ {<<s.command, s.cwd>> : s \in Range(spawned)}
              = {<<C11_CommandOf(C11_DescriptorAt(k)),
                   C11_DescriptorAt(k).output_dir_path>> :
                    k \in C12_Positions}
        /\ Len(spawned) = Cardinality(C12_Positions)
        /\ dirs = {C11_DescriptorAt(k).output_dir_path : k \in C12_Positions}

C12_SetupIndexSelects == C12_Selects({"run", "experiments", "grid_search"})

\* C13: the working directory is an injective function of the descriptor
\* identity: two distinct descriptors of a batch never share a working
\* directory, an out.txt or a metrics.json.
C13_MetricsOf(dir) == PathStr(PathJoin(dir, <<"metrics.json">>))

C13_DistinctPaths(wds) ==
    /\ LET logs == [i \in 1..Len(wds) |-> C6_LogOf([cwd |-> wds[i]])]
           documents == [i \in 1..Len(wds) |-> C13_MetricsOf(wds[i])]
       IN \A i, j \in 1..Len(wds) :
             i # j => /\ wds[i] # wds[j]
                      /\ logs[i] # logs[j]
                      /\ documents[i] # documents[j]

C13_DistinctRuns ==
    /\ \A a, b \in 1..Len(spawned) :
          a # b => /\ spawned[a].cwd # spawned[b].cwd
                   /\ (spawned[a].stdout # "sys.stdout"
                        /\ spawned[b].stdout # "sys.stdout")
                         => spawned[a].stdout # spawned[b].stdout
    /\ pc = "pool" =>
          Cardinality(files)
             = Cardinality({k \in 1..Len(spawned) :
                               spawned[k].stdout # "sys.stdout"})
               + Cardinality({t \in taken : t.opened /\ in_parallel[t.task]})

\* C13: two distinct descriptors of a batch never share a working
\* directory, an out.txt or a metrics.json: every step that prepares working
\* directories leaves their paths pairwise distinct, and the processes
\* started have pairwise distinct directories and logs in every state.
C13_InjectiveWorkingDirs ==
    /\ []C13_DistinctRuns
    /\ [][working_dirs' # working_dirs => C13_DistinctPaths(working_dirs')]_vars

C13_Witness ==
    /\ variant = "experiments" /\ pc = "pool"
    /\ Len(input_formulas) = 2 /\ Len(experiment_setups) = 2
    /\ Len(working_dirs) = 4 /\ Len(spawned) = 4
    /\ Cardinality(files) = 4

\* C14: every external process is started with its own descriptor's working
\* directory as current directory (the i-th command runs in the i-th
\* directory), that directory exists when the process starts, and creating
\* a directory that already exists is not an error.
C14_Prepared(wds) ==
    LET descriptors == built IN
       \A k \in 1..Len(wds) : wds[k] = descriptors[k].output_dir_path

C14_Started ==
    /\ \A k \in 1..Len(spawned) :
          LET s == spawned[k] IN
             /\ s.command = commands[s.task]
             /\ s.cwd = working_dirs[s.task]
             /\ s.cwd \in dirs /\ is_dir(s.cwd)
    /\ exit_status # "FileExistsError"
    /\ (existing_dirs # {} /\ pc \in {"mode", "pool", "map", "loop"}) =>
          Range(working_dirs) \subseteq dirs \cap existing_dirs

\* C14: every external process is started with its own descriptor's
\* working directory as current directory (the i-th command runs in the
\* i-th directory, which every preparing step leaves equal to the i-th
\* descriptor's), that directory exists when the process starts, and
\* creating a directory that already exists is not an error.
C14_OwnWorkingDirectory ==
    /\ []C14_Started
    /\ [][working_dirs' # working_dirs => C14_Prepared(working_dirs')]_vars

C14_Witness ==
    /\ subcommand = "run" /\ existing_dirs # {}
    /\ pc = "done" /\ exit_status = "0"
    /\ Len(spawned) >= 2
    /\ spawned[2].cwd \in existing_dirs
    /\ spawned[2].cwd # spawned[1].cwd

\* C15: a run whose metrics.json is absent gets a warning and no
\* aggregation, and the pass goes on with every later run: only a document
\* that cannot be read or processed stops the loop, a missing one never
\* does.
C15_InPass == subcommand \in {"summarize", "visualize", "process"} /\ pc \in {"metrics", "done"}

C15_AbsentMetricsSkipped ==
    C15_InPass =>
        /\ \A i \in 1..(next_task - 1) :
              /\ metrics[i] = "absent" =>
                    /\ PathStr(metrics_path(i)) \in Range(warnings)
                    /\ all_setups[i].output_dir_path \notin Range(processed)
              /\ metrics[i] = "ok" =>
                    all_setups[i].output_dir_path \in Range(processed)
        /\ (pc = "done" /\ next_task <= Len(all_setups)) =>
              \/ /\ exit_status = "1" /\ ~is_dir(results_dir)
                 /\ processed = <<>> /\ warnings = <<>>
              \/ metrics[next_task] \in {"unparsable", "incomplete", "degenerate"}
        /\ Len(processed) + Len(warnings) = next_task - 1

C15_Witness ==
    /\ C15_InPass /\ pc = "done" /\ exit_status = "0"
    /\ Len(all_setups) >= 3
    /\ metrics[1] = "ok" /\ metrics[2] = "absent" /\ metrics[3] = "ok"
    /\ Len(warnings) = 1 /\ Len(processed) = 2

\* C16: a metrics.json that is present but malformed (not parsable, or a
\* required namespace missing) is an error of that run only: the pass ends
\* normally and every run with a well-formed document is aggregated.
C16_MalformedConfined ==
    (C15_InPass /\ pc = "done" /\ is_dir(results_dir)
     /\ \A i \in 1..Len(all_setups) : metrics[i] # "degenerate") =>
        /\ exit_status \notin {"JSONDecodeError", "KeyError"}
        /\ \A i \in 1..Len(all_setups) :
              metrics[i] = "ok" => all_setups[i].output_dir_path \in Range(processed)

\* C17: when the results directory does not exist or is not a directory the
\* tool ends with exit code 1 and no metrics file is read or aggregated.
C17_InvalidResultsDir ==
    (subcommand \in {"summarize", "visualize", "process"} /\ ~is_dir(results_dir)) =>
        /\ processed = <<>>
        /\ pc = "done" => exit_code = 1
        /\ subcommand \in {"summarize", "visualize"}
              => (warnings = <<>> /\ next_task = 1)

C17_Witness ==
    /\ subcommand = "summarize" /\ pc = "done" /\ exit_status = "1"
    /\ results_dir \in existing_files
    /\ Len(all_setups) >= 2

\* C18: ratio_of_total for a total T returns sum(column) / T * 100000 when
\* T # 0; when T = 0 it returns 0 for every column whose sum is 0, and it
\* never divides by zero.
C18_RatioOfTotal ==
    applied = "part_of_total" =>
        /\ value.kind # "nan_or_inf"
        /\ total_sum # 0 =>
              /\ value.kind = "number"
              /\ value.rad_num = value.rad_den
              /\ value.num * total_sum = sum(df_col) * 100000 * value.den
        /\ (total_sum = 0 /\ sum(df_col) = 0) =>
              (value.kind = "number" /\ value.num = 0)

C18_Witness ==
    /\ applied = "part_of_total" /\ total_sum = 0
    /\ Len(df_col) = 2 /\ df_col[1] = 1 /\ df_col[2] = -1
    /\ value.kind = "number" /\ value.num = 0

\* C19 as stated: std returns 0 below two samples and otherwise the
\* population standard deviation, the square root of the sum of the squared
\* deviations divided by n.
C19_SumOfSquares(col) == sum([i \in 1..Len(col) |-> col[i] * col[i]])

\* n times the sum of the squared deviations from the mean
C19_Deviations(col) == Len(col) * C19_SumOfSquares(col) - sum(col) * sum(col)

C19_PopulationStd ==
    applied = "std" =>
        /\ Len(df_col) < 2 => (value.kind = "number" /\ value.num = 0)
        /\ Len(df_col) >= 2 =>
              /\ value.kind = "number" /\ value.num = value.den
              /\ value.rad_num * (Len(df_col) * Len(df_col))
                    = C19_Deviations(df_col) * value.rad_den

\* C19 (amended): std returns 0 below two samples and otherwise the sample
\* standard deviation, the square root of the sum of the squared deviations
\* divided by n - 1.
C19_SampleStd ==
    applied = "std" =>
        /\ Len(df_col) < 2 => (value.kind = "number" /\ value.num = 0)
        /\ Len(df_col) >= 2 =>
              /\ value.kind = "number" /\ value.num = value.den
              /\ value.rad_num * (Len(df_col) * (Len(df_col) - 1))
                    = C19_Deviations(df_col) * value.rad_den

C19_Witness ==
    /\ applied = "std" /\ df_col = <<0, 2>>
    /\ value.kind = "number" /\ value.rad_num = 2 * value.rad_den

\* C20: rel_std returns std / mean * 100 when the mean is not 0, and
\* exactly std, unscaled, when the mean is 0, also for nonzero values that
\* cancel out.
C20_RelStd ==
    (applied = "rel_std" /\ df_col # <<>>) =>
        LET sd == std(df_col) IN
           IF sum(df_col) = 0 THEN value = sd
           ELSE /\ value.kind = "number"
                /\ value.rad_num * sd.rad_den = sd.rad_num * value.rad_den
                /\ value.num * sd.den * sum(df_col)
                      = sd.num * 100 * Len(df_col) * value.den

C20_Witness ==
    /\ applied = "rel_std" /\ df_col = <<2, -2>>
    /\ value.kind = "number" /\ value.num = value.den
    /\ value.rad_num = 8 * value.rad_den

\* C28: when run_dp_experiments of a batch that was not rejected reaches its
\* outcome report and returns, every prepared command has been started
\* exactly once and its process has exited: none is running or pending.
C28_AllExitedAtReport ==
    (subcommand = "run" /\ variant \in {"run", "experiments"}
     /\ (report # <<>> \/ (pc = "done" /\ exit_status = "0"))) =>
        /\ running = {}
        /\ next_task = Len(commands) + 1
        /\ Len(spawned) = Len(commands)
        /\ Len(finish_order) = Len(commands)
        /\ \A i \in 1..Len(commands) :
              /\ Cardinality({k \in 1..Len(spawned) : spawned[k].task = i}) = 1
              /\ Cardinality({k \in 1..Len(finish_order) :
                                 finish_order[k].task = i}) = 1

C28_Witness ==
    /\ variant = "experiments" /\ num_processes = 2
    /\ pc = "done" /\ exit_status = "0"
    /\ Len(commands) = 3 /\ Len(report) = 3
    /\ finish_order[1].task = 2

\* C29: in serial execution (num_processes = 1 in run_dp_experiments, always
\* in run_grid_search) the runs execute one at a time in enumeration order:
\* the process at position i + 1 is started only after the one at position
\* i has exited.
C29_Serial ==
    \/ variant = "grid_search"
    \/ variant \in {"run", "experiments"} /\ num_processes = 1

C29_SerialInOrder ==
    (subcommand = "run" /\ C29_Serial) =>
        /\ Cardinality(running) <= 1
        /\ \A k \in 1..Len(spawned) :
              /\ spawned[k].task = k
              /\ k < Len(spawned) => has_exited(k)
        /\ \A k \in 1..Len(finish_order) : finish_order[k].task = k

C29_Witness ==
    /\ variant = "grid_search" /\ pc = "map"
    /\ Len(commands) >= 3 /\ Len(spawned) = 2
    /\ has_exited(1) /\ running = {[worker |-> 0, task |-> 2]}

\* C21: in the elimination table the MeasurementOverhead of every step is
\* that step's Total minus the sum of its SubsetDecomposition, Resolution,
\* Unification and TautologiesRemoval durations.
C21_MeasurementOverhead ==
    applied = "create_elimination_table" =>
        /\ value.kind = "table"
        /\ document.EliminateVar # <<>> =>
              Len(value.rows) = Len(document.EliminateVar)
        /\ \A i \in 1..Len(document.EliminateVar) :
              LET step == document.EliminateVar[i] IN
                 /\ value.rows[i]["Total"] = step.Total
                 /\ value.rows[i]["MeasurementOverhead"]
                       = step.Total - (step.SubsetDecomposition + step.Resolution
                                       + step.Unification + step.TautologiesRemoval)

C21_Witness ==
    /\ applied = "create_elimination_table"
    /\ Len(document.EliminateVar) = 2
    /\ document.EliminateVar[1].Total = 7 /\ document.EliminateVar[2].Total = 0
    /\ value.rows[1]["MeasurementOverhead"] = 2
    /\ value.rows[2]["MeasurementOverhead"] = -1

\* C22: the heuristic correlation is 0 whenever HeuristicScores or
\* ClauseCountDifference is empty, also when exactly one of them is.
C22_CorrelationOfEmptySeries ==
    (applied = "get_heuristic_correlation"
     /\ (document.HeuristicScores = <<>> \/ document.ClauseCountDifference = <<>>))
        => (value.kind = "number" /\ value.num = 0)

\* C23: the unit-propagation throughput is assignments / (duration /
\* 1000000) and the backtrack-to-propagation ratio is backtrack /
\* propagation when the propagation duration is not 0; when it is 0 both
\* return -1 and neither raises.
C23_ThroughputSentinel ==
    /\ applied = "get_unit_propagations_per_second" =>
          /\ value.kind = "number"
          /\ IF document.WatchedLiterals_Propagation = 0
             THEN value.num = -1 /\ value.den = 1
             ELSE value.num * document.WatchedLiterals_Propagation
                    = document.WatchedLiterals_Assignments * 1000000 * value.den
    /\ applied = "get_backtrack_to_propagation_ratio" =>
          /\ value.kind = "number"
          /\ IF document.WatchedLiterals_Propagation = 0
             THEN value.num = -1 /\ value.den = 1
             ELSE value.num * document.WatchedLiterals_Propagation
                    = document.WatchedLiterals_Backtrack * value.den

\* C24: for every document with all the required keys create_tables
\* returns its tables without raising, also when the elimination totals sum
\* to 0 while other columns do not, when per-step lists or series are
\* empty, or when cumulative durations are 0.
C24_CreateTablesNeverRaises ==
    applied = "create_tables" => value.kind = "tables"

\* the groups of a frame's columns that belong to the setup, whichever
\* level of the key names it
ColumnsOf(frame, setup) ==
    {k \in 1..Len(frame.columns) :
        frame.columns[k][1] = setup \/ frame.columns[k][2] = setup}

\* the setups of the request; summary_plots.py takes those of the map
C25_Requested ==
    IF module = "summary_plots" THEN setups_of(data)
    ELSE Range(experiment_setups)

\* C25: the comparison table is rectangular: for every problem of the map
\* and every requested setup each metric column of the setup has a cell in
\* the problem's row, and the cells are not-a-number when the (problem,
\* setup) combination is absent from the map.
C25_Rectangular ==
    applied \in {"prepare_setup_summary_data", "create_setup_summary_table"} =>
        /\ Range(value.index) = DOMAIN data
        /\ \A k \in 1..Len(value.columns) :
              Len(value.cells[k]) = Len(value.index)
        /\ \A s \in C25_Requested :
              /\ ColumnsOf(value, s) # {}
              /\ \A r \in 1..Len(value.index) : \A k \in ColumnsOf(value, s) :
                    s \notin DOMAIN data[value.index[r]]
                       => value.cells[k][r] = NaN

C25_Witness ==
    /\ applied = "create_setup_summary_table"
    /\ Len(value.index) = 2
    /\ Len(experiment_setups) = 2
    /\ \E r \in 1..2, s \in Range(experiment_setups) :
          /\ s \notin DOMAIN data[value.index[r]]
          /\ \A k \in ColumnsOf(value, s) : value.cells[k][r] = NaN
    /\ \E r \in 1..2, s \in Range(experiment_setups) :
          /\ s \in DOMAIN data[value.index[r]]
          /\ \A k \in ColumnsOf(value, s) : value.cells[k][r] # NaN

\* every (problem, setup) pair of the request has metrics in the map
AllPresent ==
    /\ DOMAIN data # {}
    /\ experiment_setups # <<>>
    /\ \A i \in DOMAIN data : \A s \in Range(experiment_setups) :
          s \in DOMAIN data[i]

\* one row per distinct problem, in sorted order, and no missing cell
RowsSortedAndFilled ==
    /\ Len(value.index) = Cardinality(DOMAIN data)
    /\ Range(value.index) = DOMAIN data
    /\ \A a, b \in 1..Len(value.index) :
          a < b => \E x, y \in 1..Len(InputKeys) :
                     /\ x < y
                     /\ InputKeys[x] = value.index[a]
                     /\ InputKeys[y] = value.index[b]
    /\ \A k \in 1..Len(value.columns) : \A r \in 1..Len(value.index) :
          value.cells[k][r] # NaN

\* C26: with metrics present for all of P problems x S setups the table has
\* P rows, one per distinct problem in sorted order, exactly
\* S x (number of scalar metrics) columns, and no missing cell.
C26_ColumnsPerSetup ==
    (applied = "create_setup_summary_table" /\ AllPresent) =>
        /\ RowsSortedAndFilled
        /\ Len(value.columns)
              = Len(experiment_setups)
                * (IF module = "summary" THEN Len(summary_metrics)
                   ELSE Len(table_metrics))

\* C27: every column is keyed by a pair (setup, metric name): one group of
\* columns per setup, every group with the same set of metric names.
C27_SetupMetricKeys ==
    applied = "create_setup_summary_table" =>
        /\ \A k \in 1..Len(value.columns) :
              value.columns[k][1] \in Range(experiment_setups)
        /\ \A k, l \in 1..Len(value.columns) :
              \E j \in 1..Len(value.columns) :
                 /\ value.columns[j][1] = value.columns[k][1]
                 /\ value.columns[j][2] = value.columns[l][2]

\* C30: in summary_table.py each problem's global entry is the tuple
\* (initial clause count, InitVars, InitVars - MinVar + 1) of the first run
\* recorded for the problem, every run recorded later without an error has
\* the same tuple, and a run with another tuple raises AssertionError and
\* leaves the global entry as it was.
C30_GlobalOfFirstRun ==
    module = "summary_table" =>
        /\ \A f \in 1..Len(processed) :
              /\ processed[f].input_key \in DOMAIN data
              /\ data[processed[f].input_key][global_col]
                    = general(processed[f].metrics)
        /\ \A i \in DOMAIN data : \E f \in 1..Len(processed) :
              processed[f].input_key = i
        /\ applied = "extract_setup_summary_data" =>
              (exit_status = "none"
                  <=> general(document) = data[value.input_key][global_col])
        /\ exit_status \in {"none", "AssertionError"}

C30_Witness ==
    /\ module = "summary_table"
    /\ applied = "extract_setup_summary_data"
    /\ exit_status = "AssertionError"
    /\ general(document) # data[value.input_key][global_col]
    /\ \E f \in 1..Len(processed) :
          /\ processed[f].input_key = value.input_key
          /\ processed[f].metrics # document
          /\ data[value.input_key][global_col] = general(processed[f].metrics)
    /\ \E i \in DOMAIN data : Cardinality(DOMAIN data[i]) = 3

====
